---- MODULE Spec2Model ----
(***************************************************************************)
(* Model of the pocket-cnn python tools: the fixed-point codec             *)
(* (fixfloat.py), the quantization analyzer and graph rewriter             *)
(* (cnn_onnx/quantize.py) and the reference interpreter                    *)
(* (cnn_onnx/inference.py).                                                *)
(*                                                                         *)
(* Floating-point values are dyadic rationals: an integer counting units   *)
(* of 2^-Scale.  Every value the model draws and every intermediate the    *)
(* code computes from it is exactly representable in a double, so integer  *)
(* arithmetic on the unit count is what the floating-point code computes.  *)
(***************************************************************************)
EXTENDS Integers, Sequences, FiniteSets, TLC

VARIABLES
    \* ---- fixfloat.py: one conversion session
    cpc,          \* position: "start", "encoded", "decoded", "done"
    number,       \* the float handed to the codec (units of 2^-Scale)
    int_bits,     \* the format's integer bits
    frac_bits,    \* the format's fraction bits
    fixed,        \* float2fixed(number): a string of characters
    fixedint,     \* float2fixedint(number)
    decoded,      \* fixed2float(fixed)
    decodedint,   \* fixedint2ffloat(fixedint)
    ffloat,       \* float2ffloat(number)
    fffloat,      \* float2ffloat(ffloat)
    \* ---- quantize.py: one call of analyze_and_quantize
    apc,              \* position: "start", "done", "raised"
    original_weights, \* the weight tensor, flattened (floats)
    original_bias,    \* the bias tensor (floats)
    analysis,         \* the returned dict, or the exception raised
    \* ---- quantize.py: one call of make_quant / make_conv_quant /
    \* make_dequant with a hand-made quantization tuple
    vpc,          \* position: "start", "returned", "raised"
    vquant,       \* the (scale, zero_point) tuple handed in
    vnode,        \* the Conv node handed to make_conv_quant
    vcall,        \* the function called
    vresult,      \* what it returned, or the exception raised
    \* ---- quantize.py: one call of quantize(model)
    qpc,              \* position: "loop", "done", "raised"
    graph_node,       \* model.graph.node
    graph_initializer,\* names of model.graph.initializer
    graph_input,      \* names of model.graph.input
    opset_import,     \* model.opset_import
    idx,              \* index of the node the for loop visits next
    new_nodes,        \* the local new_nodes
    new_initializers, \* the local new_initializers
    quant_in,         \* the local quant_in, Unbound before its assignment
    quant_out,        \* the local quant_out
    qraised,          \* the exception quantize() ended with
    \* ---- inference.py: one call of numpy_inference(onnx_model, input_)
    ipc,          \* position: "loop", "done", "raised"
    inodes,       \* onnx_model.graph.node
    iidx,         \* index of the node the for loop visits next
    next_input,   \* the live tensor: the kernels applied to input_ so far
    bitwidth,     \* the local bitwidth, Unbound before its assignment
    iraised,      \* the exception numpy_inference ended with
    \* ---- fixfloat.py: one call of float2pow2
    ppc,          \* position: "start", "done"
    pnumber,      \* the value to convert (a float)
    min_exp,      \* the smallest exponent
    max_exp,      \* the largest exponent
    pow2          \* float2pow2(pnumber, min_exp, max_exp): a string

codecVars == <<cpc, number, int_bits, frac_bits, fixed, fixedint, decoded,
               decodedint, ffloat, fffloat>>

analyzerVars == <<apc, original_weights, original_bias, analysis>>

verifyVars == <<vpc, vquant, vnode, vcall, vresult>>

rewriterVars == <<qpc, graph_node, graph_initializer, graph_input,
                  opset_import, idx, new_nodes, new_initializers, quant_in,
                  quant_out, qraised>>

interpreterVars == <<ipc, inodes, iidx, next_input, bitwidth, iraised>>

pow2Vars == <<ppc, pnumber, min_exp, max_exp, pow2>>

vars == <<codecVars, analyzerVars, verifyVars, rewriterVars,
          interpreterVars, pow2Vars>>

\* What the steps of one component leave alone: the other components.
notCodec == <<analyzerVars, verifyVars, rewriterVars, interpreterVars,
              pow2Vars>>
notAnalyzer == <<codecVars, verifyVars, rewriterVars, interpreterVars,
                 pow2Vars>>
notVerify == <<codecVars, analyzerVars, rewriterVars, interpreterVars,
               pow2Vars>>
notRewriter == <<codecVars, analyzerVars, verifyVars, interpreterVars,
                 pow2Vars>>
notInterpreter == <<codecVars, analyzerVars, verifyVars, rewriterVars,
                    pow2Vars>>
notPow2 == <<codecVars, analyzerVars, verifyVars, rewriterVars,
             interpreterVars>>

----------------------------------------------------------------------------
(* Bounds of the model *)

\* Largest int_bits of a format drawn for the codec.
MaxIntBits == 3
\* Largest frac_bits of a format drawn for the codec.
MaxFracBits == 6
\* Binary digits of a drawn value below the format's last fraction bit:
\* 1 gives the rounding ties, 2 the quarter steps on either side of a tie.
ExtraBits == 2
\* How far, in whole units of 1.0, drawn values go beyond the format's range.
Margin == 1

\* Weight and bias values drawn for the analyzer are s * m * 2^e / 4 for a
\* sign s, a mantissa m in 1..MaxMantissa and e in 0..MaxWeightExp.
MaxMantissa == 3
MaxWeightExp == 8
\* Elements of a drawn weight tensor (the bias tensor has one).
WeightLen == 1

\* Scales drawn for a hand-made quantization tuple are the analyzer's
\* values; zero points are -MaxZeroPoint..MaxZeroPoint.
MaxZeroPoint == 1
\* Longest node sequence of a drawn graph.
MaxNodes == 3
\* Longest node sequence handed to numpy_inference.
MaxLayers == 3
\* Largest value of a scale initializer read by numpy_inference.
MaxScaleValue == 2
\* min_exp and max_exp drawn for float2pow2 are in -MaxExp..MaxExp.
MaxExp == 9

\* The bit width of weights and bias (the 8 of "8 - int_width" and the
\* default max_bitwidth of get_integer_width).
TotalBits == 8

\* Floats are counted in units of 2^-Scale; One is the float 1.0.
Scale == IF MaxFracBits + ExtraBits >= TotalBits
         THEN MaxFracBits + ExtraBits ELSE TotalBits
One == 2 ^ Scale

----------------------------------------------------------------------------
(* Python built-ins the code uses *)

Abs(x) == IF x < 0 THEN -x ELSE x
Max2(a, b) == IF a >= b THEN a ELSE b
Min2(a, b) == IF a <= b THEN a ELSE b

\* round(num / den) of Python 3 for den > 0: to the nearest integer, a tie
\* to the even one.
PyRound(num, den) ==
    LET q == num \div den
        r == num % den
    IN  IF 2 * r < den THEN q
        ELSE IF 2 * r > den THEN q + 1
        ELSE IF q % 2 = 0 THEN q ELSE q + 1

RECURSIVE Digits(_)
\* The binary digits of n >= 0, most significant first, no leading zero.
Digits(n) ==
    IF n < 2 THEN <<IF n = 1 THEN "1" ELSE "0">>
    ELSE Append(Digits(n \div 2), IF n % 2 = 1 THEN "1" ELSE "0")

\* bin(n): "0b..." and "-0b..." for a negative n.
bin(n) == IF n < 0 THEN <<"-", "0", "b">> \o Digits(-n)
          ELSE <<"0", "b">> \o Digits(n)

\* "c" * n
Rep(c, n) == [k \in 1..Max2(n, 0) |-> c]

\* s.zfill(width): zeros on the left up to width (after a sign, if any).
zfill(s, width) ==
    IF Len(s) >= width THEN s
    ELSE IF Len(s) > 0 /\ s[1] = "-"
         THEN <<"-">> \o Rep("0", width - Len(s)) \o Tail(s)
         ELSE Rep("0", width - Len(s)) \o s

\* s[k:] for k >= 0
SliceFrom(s, k) == SubSeq(s, k + 1, Len(s))
\* s[-n:] for n > 0
SliceLast(s, n) == SubSeq(s, Max2(Len(s) - n, 0) + 1, Len(s))

RECURSIVE DigitsValue(_)
DigitsValue(s) ==
    IF Len(s) = 0 THEN 0
    ELSE 2 * DigitsValue(SubSeq(s, 1, Len(s) - 1))
         + (IF s[Len(s)] = "1" THEN 1 ELSE 0)

\* int(s, 2)
int2(s) ==
    IF Len(s) >= 2 /\ s[1] = "0" /\ s[2] = "b" THEN DigitsValue(SliceFrom(s, 2))
    ELSE DigitsValue(s)

----------------------------------------------------------------------------
(* fixfloat.py *)

\* The builtin rounds half away from zero: what py3round guards against.
py3roundHalfUp(val) ==
    IF val >= 0 THEN (2 * val + One) \div (2 * One)
    ELSE -((2 * (-val) + One) \div (2 * One))

\* py3round(val): val is a float, the result an integer.
py3round(val) ==
    IF Abs(PyRound(val, One) * One - val) * 2 = One
    THEN 2 * PyRound(val, 2 * One)
    ELSE PyRound(val, One)

\* float2fixed with the negative branch forgetting the two's complement.
float2fixedNoComplement(num, ib, fb) ==
    IF num < 0 THEN
        IF num < -(2 ^ (ib - 1)) * One
        THEN <<"1">> \o Rep("0", ib + fb - 1)
        ELSE zfill(SliceFrom(bin(py3round(Abs(num) * 2 ^ fb)), 2), ib + fb)
    ELSE
        IF num > 2 ^ (ib - 1) * One - One \div 2 ^ fb
        THEN <<"0">> \o Rep("1", ib + fb - 1)
        ELSE zfill(SliceFrom(bin(py3round(num * 2 ^ fb)), 2), ib + fb)

\* float2fixed without the saturation of either branch.
float2fixedNoSaturation(num, ib, fb) ==
    IF num < 0 THEN
        LET fixed_nr == bin(2 ^ (ib + fb) - py3round(Abs(num) * 2 ^ fb))
        IN  zfill(SliceLast(fixed_nr, ib + fb), ib + fb)
    ELSE zfill(SliceFrom(bin(py3round(num * 2 ^ fb)), 2), ib + fb)

\* float2fixed(number, int_bits, frac_bits): the binary fixed string.
float2fixed(num, ib, fb) ==
    IF num < 0 THEN
        IF num < -(2 ^ (ib - 1)) * One
        THEN <<"1">> \o Rep("0", ib + fb - 1)
        ELSE LET fixed_nr == bin(2 ^ (ib + fb) - py3round(Abs(num) * 2 ^ fb))
             IN  zfill(SliceLast(fixed_nr, ib + fb), ib + fb)
    ELSE
        IF num > 2 ^ (ib - 1) * One - One \div 2 ^ fb
        THEN <<"0">> \o Rep("1", ib + fb - 1)
        ELSE zfill(SliceFrom(bin(py3round(num * 2 ^ fb)), 2), ib + fb)

\* float2fixedint: the unsigned integer of the binary value.
float2fixedint(num, ib, fb) == int2(float2fixed(num, ib, fb))

\* fixed2float(number, int_bits, frac_bits): number is a binary string.
fixed2float(s, ib, fb) ==
    IF s[1] = "1"
    THEN -((2 ^ (ib + fb) - int2(s)) * (One \div 2 ^ fb))
    ELSE int2(s) * (One \div 2 ^ fb)

\* fixedint2ffloat(number, int_bits, frac_bits): number is an integer.
fixedint2ffloat(n, ib, fb) ==
    fixed2float(zfill(SliceFrom(bin(n), 2), ib + fb), ib, fb)

\* float2ffloat dividing by the integer part's weight: 2**int_bits for
\* 2**frac_bits.
float2ffloatWrongScale(num, ib, fb) ==
    Max2(Min2((py3round(num * 2 ^ fb) * One) \div 2 ^ ib,
              2 ^ (ib - 1) * One - One \div 2 ^ fb),
         -(2 ^ (ib - 1)) * One)

\* float2ffloat(number, int_bits, frac_bits): rounded and saturated float.
float2ffloat(num, ib, fb) ==
    Max2(Min2((py3round(num * 2 ^ fb) * One) \div 2 ^ fb,
              2 ^ (ib - 1) * One - One \div 2 ^ fb),
         -(2 ^ (ib - 1)) * One)

----------------------------------------------------------------------------
(* A conversion session: a value and a format are drawn, then encoded,     *)
(* decoded and quantized.                                                  *)

Formats == (1..MaxIntBits) \X (0..MaxFracBits)

\* The values drawn for format (ib, fb): every multiple of 2^-(fb+ExtraBits)
\* from Margin below the smallest to Margin above the largest power bound.
ValuesOf(ib, fb) ==
    LET step == 2 ^ (Scale - fb - ExtraBits)
        top  == (2 ^ (ib - 1) + Margin) * 2 ^ (fb + ExtraBits)
    IN  {k * step : k \in (-top)..top}

NoString == <<>>
NoValue == "none"

\* The codec is not in use.
IdleCodec ==
    /\ cpc = "idle"
    /\ number = 0
    /\ int_bits = 1
    /\ frac_bits = 0
    /\ fixed = NoString
    /\ fixedint = NoValue
    /\ decoded = NoValue
    /\ decodedint = NoValue
    /\ ffloat = NoValue
    /\ fffloat = NoValue

\* analyze_and_quantize is not in use.
IdleAnalyzer ==
    /\ apc = "idle"
    /\ original_weights = <<>>
    /\ original_bias = <<>>
    /\ analysis = NoValue

\* A local variable before its first assignment.
Unbound == <<"unbound">>

\* make_quant, make_conv_quant and make_dequant are not in use.
IdleVerify ==
    /\ vpc = "idle"
    /\ vquant = <<0, 0>>
    /\ vnode = NoValue
    /\ vcall = NoValue
    /\ vresult = NoValue

\* quantize() is not in use.
IdleRewriter ==
    /\ qpc = "idle"
    /\ graph_node = <<>>
    /\ graph_initializer = {}
    /\ graph_input = {}
    /\ opset_import = <<>>
    /\ idx = 0
    /\ new_nodes = <<>>
    /\ new_initializers = <<>>
    /\ quant_in = Unbound
    /\ quant_out = Unbound
    /\ qraised = NoValue

\* numpy_inference is not in use.
IdleInterpreter ==
    /\ ipc = "idle"
    /\ inodes = <<>>
    /\ iidx = 0
    /\ next_input = <<>>
    /\ bitwidth = Unbound
    /\ iraised = NoValue

\* float2pow2 is not in use.
IdlePow2 ==
    /\ ppc = "idle"
    /\ pnumber = 0
    /\ min_exp = 0
    /\ max_exp = 0
    /\ pow2 = NoString

InitCodec ==
    /\ cpc = "start"
    /\ \E fmt \in Formats :
          /\ int_bits = fmt[1]
          /\ frac_bits = fmt[2]
          /\ number \in ValuesOf(fmt[1], fmt[2])
    /\ fixed = NoString
    /\ fixedint = NoValue
    /\ decoded = NoValue
    /\ decodedint = NoValue
    /\ ffloat = NoValue
    /\ fffloat = NoValue
    /\ IdleAnalyzer /\ IdleVerify /\ IdleRewriter /\ IdleInterpreter /\ IdlePow2

\* float2fixed and float2fixedint of the drawn value.
Encode ==
    /\ cpc = "start"
    /\ fixed' = float2fixed(number, int_bits, frac_bits)
    /\ fixedint' = float2fixedint(number, int_bits, frac_bits)
    /\ cpc' = "encoded"
    /\ UNCHANGED <<number, int_bits, frac_bits, decoded, decodedint, ffloat,
                   fffloat, notCodec>>

\* fixed2float and fixedint2ffloat of the encodings.
Decode ==
    /\ cpc = "encoded"
    /\ decoded' = fixed2float(fixed, int_bits, frac_bits)
    /\ decodedint' = fixedint2ffloat(fixedint, int_bits, frac_bits)
    /\ cpc' = "decoded"
    /\ UNCHANGED <<number, int_bits, frac_bits, fixed, fixedint, ffloat,
                   fffloat, notCodec>>

\* float2ffloat of the drawn value, and of its own result.
Quantize ==
    /\ cpc = "decoded"
    /\ ffloat' = float2ffloat(number, int_bits, frac_bits)
    /\ fffloat' = float2ffloat(float2ffloat(number, int_bits, frac_bits),
                               int_bits, frac_bits)
    /\ cpc' = "done"
    /\ UNCHANGED <<number, int_bits, frac_bits, fixed, fixedint, decoded,
                   decodedint, notCodec>>

NextCodec == Encode \/ Decode \/ Quantize

SpecCodec == InitCodec /\ [][NextCodec]_vars

----------------------------------------------------------------------------
(* quantize.py: is_power_of_two, get_integer_width, analyze_and_quantize *)

RECURSIVE IsPow2Nat(_)
\* Whether the positive integer n is 2^k for a k >= 0.
IsPow2Nat(n) == n = 1 \/ (n > 1 /\ n % 2 = 0 /\ IsPow2Nat(n \div 2))

\* is_power_of_two(val): val is a float. math.log2(abs(val)) is a whole
\* number exactly when the unit count of abs(val) is a power of two.
is_power_of_two(val) ==
    IF val = 0 THEN FALSE ELSE IsPow2Nat(Abs(val))

RECURSIVE CeilLog2From(_, _)
\* The least k' >= k with val <= 2^k' (val a float).
CeilLog2From(val, k) ==
    IF val <= 2 ^ k * One THEN k ELSE CeilLog2From(val, k + 1)

\* math.ceil(max(math.log2(val), 0)) for a float val > 0.
CeilLog2Clamped(val) == CeilLog2From(val, 0)

\* get_integer_width without the bit reserved for the sign.
get_integer_widthNoSign(val, max_bitwidth) ==
    IF val <= 0 THEN [raised |-> "ValueError"]
    ELSE [raised |-> "no",
          value |-> Min2(CeilLog2Clamped(val), max_bitwidth)]

\* get_integer_width(val, max_bitwidth): math.log2 raises ValueError for
\* val <= 0.
get_integer_width(val, max_bitwidth) ==
    IF val <= 0 THEN [raised |-> "ValueError"]
    ELSE [raised |-> "no",
          value |-> Min2(CeilLog2Clamped(val) + 1, max_bitwidth)]

RECURSIVE SeqMax(_)
\* np.amax of a non-empty tensor
SeqMax(t) ==
    IF Len(t) = 1 THEN t[1] ELSE Max2(t[Len(t)], SeqMax(SubSeq(t, 1, Len(t) - 1)))

RECURSIVE SeqMin(_)
\* np.amin of a non-empty tensor
SeqMin(t) ==
    IF Len(t) = 1 THEN t[1] ELSE Min2(t[Len(t)], SeqMin(SubSeq(t, 1, Len(t) - 1)))

RECURSIVE SumAbs(_)
\* np.sum(np.abs(t))
SumAbs(t) ==
    IF Len(t) = 0 THEN 0 ELSE Abs(t[Len(t)]) + SumAbs(SubSeq(t, 1, Len(t) - 1))

\* highest_val of analyze_and_quantize
HighestVal(weights, bias) ==
    LET max_val == Max2(SeqMax(weights), SeqMax(bias))
        min_val == Min2(SeqMin(weights), SeqMin(bias))
    IN  Max2(Abs(max_val), Abs(min_val))

\* fp_helper.to_fixed_point_array: every element rounded and saturated to
\* the format, still a float.
to_fixed_point_array(t, ib, fb) ==
    [k \in 1..Len(t) |-> float2ffloat(t[k], ib, fb)]

\* fp_helper.v_to_fixedint: every element's bit pattern as an integer.
v_to_fixedint(t, ib, fb) ==
    [k \in 1..Len(t) |-> float2fixedint(t[k], ib, fb)]

\* analyze_and_quantize(original_weights, original_bias): the returned
\* dict, or the exception get_integer_width raises. avg_val, the mean of
\* the absolute quantized weights, is kept as <<sum, count>>.
analyze_and_quantize(weights, bias) ==
    LET highest_val == HighestVal(weights, bias)
        width == get_integer_width(highest_val, TotalBits)
    IN  IF width.raised # "no" THEN [raised |-> width.raised]
        ELSE LET int_width == width.value
                 quantized_weights ==
                     to_fixed_point_array(weights, int_width,
                                          TotalBits - int_width)
                 quantized_bias ==
                     to_fixed_point_array(bias, int_width,
                                          TotalBits - int_width)
             IN  [raised |-> "no",
                  weights |-> v_to_fixedint(quantized_weights, int_width,
                                            TotalBits - int_width),
                  bias |-> v_to_fixedint(quantized_bias, int_width,
                                         TotalBits - int_width),
                  quant |-> <<int_width, TotalBits - int_width>>,
                  avg_val |-> <<SumAbs(quantized_weights),
                                Len(quantized_weights)>>]

\* The values a drawn weight or bias element takes: 0 and s * m * 2^e / 4.
WeightValues ==
    {0} \cup {s * m * 2 ^ e * (One \div 4) :
                 s \in {-1, 1}, m \in 1..MaxMantissa, e \in 0..MaxWeightExp}

InitAnalyzer ==
    /\ apc = "start"
    /\ original_weights \in [1..WeightLen -> WeightValues]
    /\ original_bias \in [1..1 -> WeightValues]
    /\ analysis = NoValue
    /\ IdleCodec /\ IdleVerify /\ IdleRewriter /\ IdleInterpreter /\ IdlePow2

\* analyze_and_quantize returns.
Analyze ==
    /\ apc = "start"
    /\ LET result == analyze_and_quantize(original_weights, original_bias)
       IN  /\ result.raised = "no"
           /\ analysis' = result
    /\ apc' = "done"
    /\ UNCHANGED <<original_weights, original_bias, notAnalyzer>>

\* analyze_and_quantize raises.
AnalyzeRaises ==
    /\ apc = "start"
    /\ LET result == analyze_and_quantize(original_weights, original_bias)
       IN  /\ result.raised # "no"
           /\ analysis' = result
    /\ apc' = "raised"
    /\ UNCHANGED <<original_weights, original_bias, notAnalyzer>>

NextAnalyzer == Analyze \/ AnalyzeRaises

SpecAnalyzer == InitAnalyzer /\ [][NextAnalyzer]_vars

----------------------------------------------------------------------------
(* quantize.py: verify_quant, make_quant, make_conv_quant, make_dequant *)

\* The scale of the QLinearConv output quantization tensors: the 16 of
\* make_quant_tensors(node_name + "_quant", (16, 0)).
ConvOutputScale == 16

\* A string literal of quantize.py as the sequence of its parts, each part
\* running from one underscore to the next, so that two names are the same
\* string exactly when they are the same sequence.
Parts(suffix) ==
    CASE suffix = "_scale" -> <<"_scale">>
      [] suffix = "_zero_point" -> <<"_zero", "_point">>
      [] suffix = "_quant" -> <<"_quant">>
      [] suffix = "_quant_scale" -> <<"_quant", "_scale">>
      [] suffix = "_quant_zero_point" -> <<"_quant", "_zero", "_point">>
      [] suffix = "_dequant" -> <<"_dequant">>
      [] suffix = "_dequant_scale" -> <<"_dequant", "_scale">>
      [] suffix = "_dequant_zero_point" -> <<"_dequant", "_zero", "_point">>
      [] suffix = "_qconv" -> <<"_qconv">>
      [] suffix = "_quant_weights" -> <<"_quant", "_weights">>
      [] suffix = "_quant_weights_scale" -> <<"_quant", "_weights", "_scale">>
      [] suffix = "_quant_weights_zero_point" ->
             <<"_quant", "_weights", "_zero", "_point">>
      [] suffix = "_quant_bias" -> <<"_quant", "_bias">>

\* name + suffix: a name is the sequence of its parts, "" the empty one.
Plus(name, suffix) == name \o Parts(suffix)

\* verify_quant(quant): "ok", or the exception raised.
verify_quant(quant) ==
    IF ~is_power_of_two(quant[1]) THEN "AssertionError"
    ELSE IF quant[2] # 0 THEN "AssertionError"
    ELSE "ok"

\* graph_generator.make_quant_tensors(name, quant): the scale and the
\* zero point tensor of a quantization tuple.
make_quant_tensors(name, quant) ==
    <<[name |-> Plus(name, "_scale"), kind |-> "scale", vals |-> <<quant[1]>>],
      [name |-> Plus(name, "_zero_point"), kind |-> "zero_point",
       vals |-> <<quant[2]>>]>>

\* make_quant(input_name, quant): the QuantizeLinear node and its
\* initializers, or the exception raised.
make_quant(input_name, quant) ==
    IF verify_quant(quant) # "ok" THEN [raised |-> verify_quant(quant)]
    ELSE [raised |-> "no",
          node |-> [op_type |-> "QuantizeLinear",
                    name |-> Plus(input_name, "_quant"),
                    input |-> <<input_name,
                                Plus(input_name, "_quant_scale"),
                                Plus(input_name, "_quant_zero_point")>>,
                    output |-> <<Plus(input_name, "_quant")>>],
          init |-> make_quant_tensors(Plus(input_name, "_quant"), quant)]

\* make_dequant whose node writes a tensor of its own instead of
\* output_name.
make_dequantOwnOutput(input_name, output_name, quant) ==
    IF verify_quant(quant) # "ok" THEN [raised |-> verify_quant(quant)]
    ELSE [raised |-> "no",
          node |-> [op_type |-> "DequantizeLinear",
                    name |-> Plus(input_name, "_dequant"),
                    input |-> <<Plus(input_name, "_dequant"),
                                Plus(input_name, "_dequant_scale"),
                                Plus(input_name, "_dequant_zero_point")>>,
                    output |-> <<Plus(output_name, "_dequant")>>],
          init |-> make_quant_tensors(Plus(input_name, "_dequant"), quant)]

\* make_dequant(input_name, output_name, quant): the DequantizeLinear node
\* and its initializers, or the exception raised.
make_dequant(input_name, output_name, quant) ==
    IF verify_quant(quant) # "ok" THEN [raised |-> verify_quant(quant)]
    ELSE [raised |-> "no",
          node |-> [op_type |-> "DequantizeLinear",
                    name |-> Plus(input_name, "_dequant"),
                    input |-> <<Plus(input_name, "_dequant"),
                                Plus(input_name, "_dequant_scale"),
                                Plus(input_name, "_dequant_zero_point")>>,
                    output |-> <<output_name>>],
          init |-> make_quant_tensors(Plus(input_name, "_dequant"), quant)]

RECURSIVE Log2Nat(_)
\* k for the positive integer 2^k
Log2Nat(n) == IF n <= 1 THEN 0 ELSE 1 + Log2Nat(n \div 2)

\* math.log2(val) for a float val > 0 that is a power of two
Log2OfPow2(val) == Log2Nat(val) - Scale

RECURSIVE Reduced(_, _)
\* The fraction a / b with the common factors of two removed.
Reduced(a, b) ==
    IF a > 0 /\ a % 2 = 0 /\ b % 2 = 0 THEN Reduced(a \div 2, b \div 2)
    ELSE <<a, b>>

RECURSIVE RoundLog2Up(_, _, _)
\* The least k' >= k with a / b < 2^(k' + 1/2), for a / b >= 1.
RoundLog2Up(a, b, k) ==
    IF a * a < 2 ^ (2 * k + 1) * b * b THEN k ELSE RoundLog2Up(a, b, k + 1)

RECURSIVE RoundLog2Down(_, _, _)
\* The greatest k' <= k with a / b >= 2^(k' - 1/2), for a / b < 1, k <= 0.
RoundLog2Down(a, b, k) ==
    IF a * a * 2 ^ (1 - 2 * k) >= b * b THEN k
    ELSE RoundLog2Down(a, b, k - 1)

\* round(math.log2(num / den)) for num / den > 0. log2 of a rational is
\* never half way between two integers, so no tie arises.
RoundLog2(num, den) ==
    LET f == Reduced(num, den)
    IN  IF f[1] >= f[2] THEN RoundLog2Up(f[1], f[2], 0)
        ELSE RoundLog2Down(f[1], f[2], 0)

\* 2 ** bits as a float, for an integer-valued float bits. Below 2^-Scale
\* the model has no unit; every use clamps the value to at least 1.
Pow2Float(bits) ==
    IF bits >= 0 THEN 2 ^ bits * One
    ELSE IF -bits <= Scale THEN One \div 2 ^ (-bits)
    ELSE 0

\* The output quantization without the floor at 1.
OutputQuantNoFloor(quant_in_, avg_val) ==
    LET quant_factor == RoundLog2(avg_val[1], avg_val[2] * One)
        quant_scale_bits == Log2OfPow2(quant_in_[1]) - quant_factor
        quant_scale == Min2(Pow2Float(quant_scale_bits), 2 ^ TotalBits * One)
    IN  <<(quant_scale \div One) * One, 0>>

\* The output quantization of make_conv_quant: quant_in is valid with a
\* positive scale, avg_val = <<sum, count>> is positive.
OutputQuant(quant_in_, avg_val) ==
    LET quant_factor == RoundLog2(avg_val[1], avg_val[2] * One)
        quant_scale_bits == Log2OfPow2(quant_in_[1]) - quant_factor
        quant_scale == Max2(Min2(Pow2Float(quant_scale_bits),
                                 2 ^ TotalBits * One), One)
    IN  <<(quant_scale \div One) * One, 0>>

\* model.graph.initializer as numpy_helper.to_array reads it: name -> tensor.
\*   w1, b1: the tensor [-4, 4, 2, -2] with bias [0]: int_width 3
\*   w2, b2: [1/32, -1/16] with bias [1/4]: int_width 1, average
\*           magnitude 0.046875
\*   w3, b3: [2, -2] with bias [4]: int_width 3, average magnitude 2
weights_dict ==
    (<<"w1">> :> <<-4 * One, 4 * One, 2 * One, -2 * One>>)
    @@ (<<"b1">> :> <<0>>)
    @@ (<<"w2">> :> <<One \div 32, -(One \div 16)>>)
    @@ (<<"b2">> :> <<One \div 4>>)
    @@ (<<"w3">> :> <<2 * One, -2 * One>>)
    @@ (<<"b3">> :> <<4 * One>>)

\* node_name of make_conv_quant and of the loop body of quantize
NodeName(node) == IF node.name = <<>> THEN node.output[1] ELSE node.name

\* make_conv_quant from the return of analyze_and_quantize
\* (quantized_weights) on.
QuantizedConv(node, quant_in_, quantized_weights) ==
    LET node_name == NodeName(node)
    IN  IF quantized_weights.raised # "no"
        THEN [raised |-> quantized_weights.raised]
        ELSE IF quantized_weights.avg_val[1] = 0
        THEN [raised |-> "ValueError"]
        ELSE IF quant_in_[1] < 0
        THEN [raised |-> "ValueError"]
        ELSE
        [raised |-> "no",
         node |-> [op_type |-> "QLinearConv",
                   name |-> Plus(node_name, "_qconv"),
                   input |-> <<Plus(node.input[1], "_quant"),
                               Plus(node.input[1], "_quant_scale"),
                               Plus(node.input[1], "_quant_zero_point"),
                               Plus(node_name, "_quant_weights"),
                               Plus(node_name, "_quant_weights_scale"),
                               Plus(node_name, "_quant_weights_zero_point"),
                               Plus(node_name, "_quant_scale"),
                               Plus(node_name, "_quant_zero_point"),
                               Plus(node_name, "_quant_bias")>>,
                   output |-> <<Plus(node_name, "_dequant")>>],
         init |-> <<[name |-> Plus(node_name, "_quant_weights"),
                     kind |-> "weights",
                     vals |-> quantized_weights.weights],
                    [name |-> Plus(node_name, "_quant_bias"),
                     kind |-> "bias",
                     vals |-> quantized_weights.bias]>>
                  \o make_quant_tensors(
                         Plus(node_name, "_quant_weights"),
                         <<quantized_weights.quant[1] * One,
                           quantized_weights.quant[2]>>)
                  \o make_quant_tensors(Plus(node_name, "_quant"),
                                        <<ConvOutputScale * One, 0>>),
         quant_out |-> OutputQuant(quant_in_, quantized_weights.avg_val)]

\* make_conv_quant(node, weights_dict, quant_in): the QLinearConv node, its
\* initializers and quant_out, or the exception raised.
make_conv_quant(node, wd, quant_in_) ==
    IF verify_quant(quant_in_) # "ok" THEN [raised |-> verify_quant(quant_in_)]
    ELSE IF node.input[2] \notin DOMAIN wd \/ node.input[3] \notin DOMAIN wd
    THEN [raised |-> "KeyError"]
    ELSE QuantizedConv(node, quant_in_,
                       analyze_and_quantize(wd[node.input[2]],
                                            wd[node.input[3]]))

----------------------------------------------------------------------------
(* The graphs handed to quantize(): the initializers, and node sequences    *)
(* in which node k writes tensor TensorNames[k] and reads the graph input   *)
(* or the output of an earlier node.                                       *)

TensorNames == <<"t1", "t2", "t3", "t4", "t5", "t6">>
GraphInput == <<"x">>

WeightPairs == {<<"w1", "b1">>, <<"w2", "b2">>, <<"w3", "b3">>}

\* The tensors node k may read: the graph input and the outputs of the two
\* nodes before it.
InputsOf(k) ==
    {GraphInput} \cup {<<TensorNames[j]>> : j \in Max2(1, k - 2)..(k - 1)}

\* The nodes that may stand at position k: a Conv over any weight pair,
\* named "conv<its output>" when over w2 and unnamed otherwise; a Relu,
\* unnamed or named "<its output>_quant".
NodeChoices(k) ==
    {[op_type |-> "Conv",
      name |-> IF wp[1] = "w2" THEN <<"conv", TensorNames[k]>> ELSE <<>>,
      input |-> <<inp, <<wp[1]>>, <<wp[2]>>>>,
      output |-> <<<<TensorNames[k]>>>>] :
        inp \in InputsOf(k), wp \in WeightPairs}
    \cup
    {[op_type |-> "Relu", name |-> nm, input |-> <<inp>>,
      output |-> <<<<TensorNames[k]>>>>] :
        nm \in {<<>>, <<TensorNames[k], "_quant">>}, inp \in InputsOf(k)}

----------------------------------------------------------------------------
(* One call of make_quant, make_dequant or make_conv_quant with a          *)
(* hand-made quantization tuple.                                           *)

\* The weight pairs of the Conv nodes handed to make_conv_quant.
SamplePairs == WeightPairs

\* An unnamed Conv node over a weight pair.
SampleConv(wp) == [op_type |-> "Conv", name |-> <<>>,
                   input |-> <<GraphInput, <<wp[1]>>, <<wp[2]>>>>,
                   output |-> <<<<"t1">>>>]

InitVerify ==
    /\ vpc = "start"
    /\ vquant \in WeightValues \X ((-MaxZeroPoint)..MaxZeroPoint)
    /\ vnode \in {SampleConv(wp) : wp \in SamplePairs}
    /\ vcall = NoValue
    /\ vresult = NoValue
    /\ IdleCodec /\ IdleAnalyzer /\ IdleRewriter /\ IdleInterpreter /\ IdlePow2

CallMakeQuant ==
    /\ vpc = "start"
    /\ vcall' = "make_quant"
    /\ vresult' = make_quant(GraphInput, vquant)
    /\ vpc' = IF make_quant(GraphInput, vquant).raised = "no"
              THEN "returned" ELSE "raised"
    /\ UNCHANGED <<vquant, vnode, notVerify>>

CallMakeDequant ==
    /\ vpc = "start"
    /\ vcall' = "make_dequant"
    /\ vresult' = make_dequant(<<"t1">>, <<"t1">>, vquant)
    /\ vpc' = IF make_dequant(<<"t1">>, <<"t1">>, vquant).raised = "no"
              THEN "returned" ELSE "raised"
    /\ UNCHANGED <<vquant, vnode, notVerify>>

CallMakeConvQuant ==
    /\ vpc = "start"
    /\ vcall' = "make_conv_quant"
    /\ \E result \in {make_conv_quant(vnode, weights_dict, vquant)} :
           /\ vresult' = result
           /\ vpc' = IF result.raised = "no" THEN "returned" ELSE "raised"
    /\ UNCHANGED <<vquant, vnode, notVerify>>

NextVerify == CallMakeQuant \/ CallMakeDequant \/ CallMakeConvQuant

SpecVerify == InitVerify /\ [][NextVerify]_vars

----------------------------------------------------------------------------
(* quantize.py: quantize(model), one step per iteration of its for loop     *)

\* [nn.name for nn in new_nodes]
NodeNames(nodes) == {nodes[k].name : k \in 1..Len(nodes)}

\* [i.name for i in initializers]
InitNames(inits) == {inits[k].name : k \in 1..Len(inits)}

\* The dedupe test of the loop: whether the name input[0] + "_quant" is
\* the name of a node emitted so far.
AlreadyQuantized(node, nodes) ==
    Plus(node.input[1], "_quant") \in NodeNames(nodes)

\* The end of the loop body for a Conv node: mc is what make_conv_quant
\* returned, md what make_dequant returned or raised. The original weight
\* and bias leave the initializers and the inputs.
ConvAfterDequant(node, nodes, inits, qin, mc, md, ginit, ginput) ==
    IF md.raised # "no" THEN [raised |-> md.raised]
    ELSE IF Cardinality({n \in ginit : n \in {node.input[2], node.input[3]}}) # 2
    THEN [raised |-> "AssertionError"]
    ELSE [raised |-> "no",
          new_nodes |-> Append(Append(nodes, mc.node), md.node),
          new_initializers |-> inits \o mc.init \o md.init,
          quant_in |-> qin,
          quant_out |-> mc.quant_out,
          graph_initializer |-> ginit \ {node.input[2], node.input[3]},
          graph_input |-> ginput \ {node.input[2], node.input[3]}]

\* The loop body from the return of make_conv_quant (mc) on.
ConvAfterConvQuant(node, nodes, inits, qin, mc, ginit, ginput) ==
    IF mc.raised # "no" THEN [raised |-> mc.raised]
    ELSE ConvAfterDequant(node, nodes, inits, qin, mc,
                          make_dequant(NodeName(node), node.output[1],
                                       mc.quant_out),
                          ginit, ginput)

\* The loop body from the call of make_conv_quant on: reading the local
\* quant_in before its first assignment raises UnboundLocalError.
ConvFromConvQuant(node, nodes, inits, qin, ginit, ginput) ==
    IF qin = Unbound THEN [raised |-> "UnboundLocalError"]
    ELSE ConvAfterConvQuant(node, nodes, inits, qin,
                            make_conv_quant(node, weights_dict, qin),
                            ginit, ginput)

\* The loop body from the return of make_quant (mq) on.
ConvAfterQuant(node, nodes, inits, qin, mq, ginit, ginput) ==
    IF mq.raised # "no" THEN [raised |-> mq.raised]
    ELSE ConvFromConvQuant(node, Append(nodes, mq.node), inits \o mq.init,
                           qin, ginit, ginput)

\* The body of the loop for a Conv node, from the locals and the graph as
\* they stand: the locals and the graph after it, or the exception raised.
\* When the input counts as quantized, quant_in keeps its value; otherwise
\* it becomes quant_out and a QuantizeLinear node is made from it.
ConvIteration(node, nodes, inits, qin, qout, ginit, ginput) ==
    IF AlreadyQuantized(node, nodes)
    THEN ConvFromConvQuant(node, nodes, inits, qin, ginit, ginput)
    ELSE ConvAfterQuant(node, nodes, inits, qout,
                        make_quant(node.input[1], qout), ginit, ginput)

\* The caller holds an empty graph with the initializers loaded.
InitRewriter ==
    /\ qpc = "build"
    /\ graph_node = <<>>
    /\ graph_initializer = DOMAIN weights_dict
    /\ graph_input = {GraphInput} \cup DOMAIN weights_dict
    /\ opset_import = <<[domain |-> "", version |-> 9]>>
    /\ idx = 0
    /\ new_nodes = <<>>
    /\ new_initializers = <<>>
    /\ quant_in = Unbound
    /\ quant_out = Unbound
    /\ qraised = NoValue
    /\ IdleCodec /\ IdleAnalyzer /\ IdleVerify /\ IdleInterpreter /\ IdlePow2

\* The caller appends a node to the graph it will hand to quantize().
AddNode ==
    /\ qpc = "build"
    /\ Len(graph_node) < MaxNodes
    /\ \E nd \in NodeChoices(Len(graph_node) + 1) :
           graph_node' = Append(graph_node, nd)
    /\ UNCHANGED <<qpc, graph_initializer, graph_input, opset_import, idx,
                   new_nodes, new_initializers, quant_in, quant_out, qraised,
                   notRewriter>>

\* quantize(model) is called: its locals before the loop.
QuantizeStart ==
    /\ qpc = "build"
    /\ qpc' = "loop"
    /\ new_nodes' = <<>>
    /\ new_initializers' = <<>>
    /\ quant_out' = <<One, 0>>
    /\ quant_in' = Unbound
    /\ idx' = 1
    /\ UNCHANGED <<graph_node, graph_initializer, graph_input, opset_import,
                   qraised, notRewriter>>

\* An iteration on a Conv node that completes.
QuantizeConv ==
    /\ qpc = "loop"
    /\ idx <= Len(graph_node)
    /\ graph_node[idx].op_type = "Conv"
    /\ \E r \in {ConvIteration(graph_node[idx], new_nodes, new_initializers,
                              quant_in, quant_out, graph_initializer,
                              graph_input)} :
           /\ r.raised = "no"
           /\ new_nodes' = r.new_nodes
           /\ new_initializers' = r.new_initializers
           /\ quant_in' = r.quant_in
           /\ quant_out' = r.quant_out
           /\ graph_initializer' = r.graph_initializer
           /\ graph_input' = r.graph_input
    /\ idx' = idx + 1
    /\ UNCHANGED <<qpc, graph_node, opset_import, qraised, notRewriter>>

\* An iteration on a Conv node that raises: quantize() ends, the graph
\* keeps what earlier iterations removed from it.
QuantizeConvRaises ==
    /\ qpc = "loop"
    /\ idx <= Len(graph_node)
    /\ graph_node[idx].op_type = "Conv"
    /\ \E r \in {ConvIteration(graph_node[idx], new_nodes, new_initializers,
                              quant_in, quant_out, graph_initializer,
                              graph_input)} :
           /\ r.raised # "no"
           /\ qraised' = r.raised
    /\ qpc' = "raised"
    /\ UNCHANGED <<graph_node, graph_initializer, graph_input, opset_import,
                   idx, new_nodes, new_initializers, quant_in, quant_out,
                   notRewriter>>

\* An iteration on any other node: it is passed on as it is.
QuantizePassThrough ==
    /\ qpc = "loop"
    /\ idx <= Len(graph_node)
    /\ graph_node[idx].op_type # "Conv"
    /\ new_nodes' = Append(new_nodes, graph_node[idx])
    /\ idx' = idx + 1
    /\ UNCHANGED <<qpc, graph_node, graph_initializer, graph_input,
                   opset_import, new_initializers, quant_in, quant_out,
                   qraised, notRewriter>>

\* After the loop: the nodes are replaced, the new initializers and their
\* inputs added, the opset set to 11.
QuantizeFinish ==
    /\ qpc = "loop"
    /\ idx > Len(graph_node)
    /\ graph_node' = new_nodes
    /\ graph_initializer' = graph_initializer \cup InitNames(new_initializers)
    /\ graph_input' = graph_input \cup InitNames(new_initializers)
    /\ opset_import' = <<[domain |-> "", version |-> 11],
                         [domain |-> "ai.onnx", version |-> 11]>>
    /\ qpc' = "done"
    /\ UNCHANGED <<idx, new_nodes, new_initializers, quant_in, quant_out,
                   qraised, notRewriter>>

NextRewriter ==
    \/ AddNode
    \/ QuantizeStart
    \/ QuantizeConv
    \/ QuantizeConvRaises
    \/ QuantizePassThrough
    \/ QuantizeFinish

SpecRewriter == InitRewriter /\ [][NextRewriter]_vars

----------------------------------------------------------------------------
(* The output scale of make_conv_quant, from a hand-made input scale or as  *)
(* quantize() hands it from one Conv to the next.                          *)

InitPropagation == InitVerify \/ InitRewriter

NextPropagation == NextVerify \/ NextRewriter

SpecPropagation == InitPropagation /\ [][NextPropagation]_vars

----------------------------------------------------------------------------
(* inference.py: numpy_inference(onnx_model, input_), one step per          *)
(* iteration of its for loop. A node is its op_type, the pad that           *)
(* parse_param.get_pad reads from it, and scale_val, the value of the scale *)
(* initializer it names (input[4] of a QLinearConv, input[1] of a           *)
(* QuantizeLinear). A tensor is the sequence of the kernels applied to      *)
(* input_, each with the parameters that differ between calls.             *)

\* cnn_reference.zero_pad(data, pad)
zero_pad(data) == Append(data, [fn |-> "zero_pad", arg |-> <<>>])
\* cnn_reference.conv(data, weights, bias, (ksize, stride), bitwidth)
conv(data, bitwidth_) == Append(data, [fn |-> "conv", arg |-> bitwidth_])
\* cnn_reference.scale(data, factor)
scale(data, factor) == Append(data, [fn |-> "scale", arg |-> <<factor>>])
\* cnn_reference.max_pool(data, ksize, stride)
max_pool(data) == Append(data, [fn |-> "max_pool", arg |-> <<>>])
\* cnn_reference.avg_pool(data)
avg_pool(data) == Append(data, [fn |-> "avg_pool", arg |-> <<>>])
\* cnn_reference.relu(data)
relu(data) == Append(data, [fn |-> "relu", arg |-> <<>>])
\* cnn_reference.leaky_relu(data, 0.125, bitwidth)
leaky_relu(data, bitwidth_) ==
    Append(data, [fn |-> "leaky_relu", arg |-> bitwidth_])

\* The op_types that have a branch in the loop, and two that have none:
\* the DequantizeLinear that quantize() emits, and Softmax.
BranchOps == {"Conv", "QLinearConv", "QuantizeLinear", "MaxPool",
              "GlobalAveragePool", "Relu", "LeakyRelu"}
OtherOps == {"DequantizeLinear", "Softmax"}

\* The nodes a model may hold.
LayerChoices ==
    {[op_type |-> "QLinearConv", pad |-> pd, scale_val |-> sv] :
        pd \in BOOLEAN, sv \in 0..MaxScaleValue}
    \cup {[op_type |-> "QuantizeLinear", pad |-> FALSE, scale_val |-> sv] :
             sv \in 1..MaxScaleValue}
    \cup {[op_type |-> op, pad |-> FALSE, scale_val |-> 1] :
             op \in (BranchOps \cup OtherOps) \ {"QLinearConv", "QuantizeLinear"}}

\* The caller holds an empty model.
InitInterpreter ==
    /\ ipc = "build"
    /\ inodes = <<>>
    /\ iidx = 0
    /\ next_input = <<>>
    /\ bitwidth = Unbound
    /\ iraised = NoValue
    /\ IdleCodec /\ IdleAnalyzer /\ IdleVerify /\ IdleRewriter /\ IdlePow2

\* The caller appends a node to the model it will hand to numpy_inference.
AddLayer ==
    /\ ipc = "build"
    /\ Len(inodes) < MaxLayers
    /\ \E nd \in LayerChoices : inodes' = Append(inodes, nd)
    /\ UNCHANGED <<ipc, iidx, next_input, bitwidth, iraised, notInterpreter>>

\* numpy_inference is called: next_input = input_, bitwidth not yet bound.
InferenceStart ==
    /\ ipc = "build"
    /\ ipc' = "loop"
    /\ iidx' = 1
    /\ next_input' = <<>>
    /\ bitwidth' = Unbound
    /\ UNCHANGED <<inodes, iraised, notInterpreter>>

\* node.op_type == "Conv": assert False, "Layer not supported".
InferConv ==
    /\ ipc = "loop"
    /\ iidx <= Len(inodes)
    /\ inodes[iidx].op_type = "Conv"
    /\ ipc' = "raised"
    /\ iraised' = "AssertionError"
    /\ UNCHANGED <<inodes, iidx, next_input, bitwidth, notInterpreter>>

\* node.op_type == "QLinearConv", the weights scale positive: the input is
\* padded when the node has a pad, bitwidth is bound and conv applied.
InferQLinearConv ==
    /\ ipc = "loop"
    /\ iidx <= Len(inodes)
    /\ inodes[iidx].op_type = "QLinearConv"
    /\ inodes[iidx].scale_val > 0
    /\ \E bw \in {<<TotalBits - Log2Nat(inodes[iidx].scale_val),
                   Log2Nat(inodes[iidx].scale_val)>>} :
           /\ bitwidth' = bw
           /\ next_input' = conv(IF inodes[iidx].pad THEN zero_pad(next_input)
                                 ELSE next_input, bw)
    /\ iidx' = iidx + 1
    /\ UNCHANGED <<ipc, inodes, iraised, notInterpreter>>

\* node.op_type == "QLinearConv", the weights scale 0: math.log2 raises.
InferQLinearConvRaises ==
    /\ ipc = "loop"
    /\ iidx <= Len(inodes)
    /\ inodes[iidx].op_type = "QLinearConv"
    /\ inodes[iidx].scale_val = 0
    /\ ipc' = "raised"
    /\ iraised' = "ValueError"
    /\ next_input' = IF inodes[iidx].pad THEN zero_pad(next_input)
                     ELSE next_input
    /\ UNCHANGED <<inodes, iidx, bitwidth, notInterpreter>>

\* node.op_type == "QuantizeLinear"
InferQuantizeLinear ==
    /\ ipc = "loop"
    /\ iidx <= Len(inodes)
    /\ inodes[iidx].op_type = "QuantizeLinear"
    /\ next_input' = scale(next_input, inodes[iidx].scale_val)
    /\ iidx' = iidx + 1
    /\ UNCHANGED <<ipc, inodes, bitwidth, iraised, notInterpreter>>

\* node.op_type == "MaxPool"
InferMaxPool ==
    /\ ipc = "loop"
    /\ iidx <= Len(inodes)
    /\ inodes[iidx].op_type = "MaxPool"
    /\ next_input' = max_pool(next_input)
    /\ iidx' = iidx + 1
    /\ UNCHANGED <<ipc, inodes, bitwidth, iraised, notInterpreter>>

\* node.op_type == "GlobalAveragePool"
InferGlobalAveragePool ==
    /\ ipc = "loop"
    /\ iidx <= Len(inodes)
    /\ inodes[iidx].op_type = "GlobalAveragePool"
    /\ next_input' = avg_pool(next_input)
    /\ iidx' = iidx + 1
    /\ UNCHANGED <<ipc, inodes, bitwidth, iraised, notInterpreter>>

\* node.op_type == "Relu"
InferRelu ==
    /\ ipc = "loop"
    /\ iidx <= Len(inodes)
    /\ inodes[iidx].op_type = "Relu"
    /\ next_input' = relu(next_input)
    /\ iidx' = iidx + 1
    /\ UNCHANGED <<ipc, inodes, bitwidth, iraised, notInterpreter>>

\* node.op_type == "LeakyRelu" after a QLinearConv bound bitwidth
InferLeakyRelu ==
    /\ ipc = "loop"
    /\ iidx <= Len(inodes)
    /\ inodes[iidx].op_type = "LeakyRelu"
    /\ bitwidth # Unbound
    /\ next_input' = leaky_relu(next_input, bitwidth)
    /\ iidx' = iidx + 1
    /\ UNCHANGED <<ipc, inodes, bitwidth, iraised, notInterpreter>>

\* node.op_type == "LeakyRelu" before any QLinearConv: the local bitwidth
\* is read before its first assignment.
InferLeakyReluRaises ==
    /\ ipc = "loop"
    /\ iidx <= Len(inodes)
    /\ inodes[iidx].op_type = "LeakyRelu"
    /\ bitwidth = Unbound
    /\ ipc' = "raised"
    /\ iraised' = "UnboundLocalError"
    /\ UNCHANGED <<inodes, iidx, next_input, bitwidth, notInterpreter>>

\* No branch of the if / elif chain matches the op_type and the chain has
\* no else: the loop goes on to the next node.
InferNoBranch ==
    /\ ipc = "loop"
    /\ iidx <= Len(inodes)
    /\ inodes[iidx].op_type \notin BranchOps
    /\ iidx' = iidx + 1
    /\ UNCHANGED <<ipc, inodes, next_input, bitwidth, iraised,
                   notInterpreter>>

\* return next_input
InferenceReturn ==
    /\ ipc = "loop"
    /\ iidx > Len(inodes)
    /\ ipc' = "done"
    /\ UNCHANGED <<inodes, iidx, next_input, bitwidth, iraised,
                   notInterpreter>>

NextInterpreter ==
    \/ AddLayer
    \/ InferenceStart
    \/ InferConv
    \/ InferQLinearConv
    \/ InferQLinearConvRaises
    \/ InferQuantizeLinear
    \/ InferMaxPool
    \/ InferGlobalAveragePool
    \/ InferRelu
    \/ InferLeakyRelu
    \/ InferLeakyReluRaises
    \/ InferNoBranch
    \/ InferenceReturn

SpecInterpreter == InitInterpreter /\ [][NextInterpreter]_vars

----------------------------------------------------------------------------
(* fixfloat.py: float2pow2(number, min_exp, max_exp)                        *)

\* float2pow2. math.log2(abs(number)) is a whole number for a power of two
\* and irrational otherwise, so py3round of it is the nearest integer and
\* meets no tie.
float2pow2(num, min_exp_, max_exp_) ==
    LET exp_rounded ==
            IF num = 0 THEN min_exp_
            ELSE Max2(Min2(RoundLog2(Abs(num), One), max_exp_), min_exp_)
        sign == IF num < 0 THEN "1" ELSE "0"
    IN  <<sign>> \o zfill(SliceFrom(bin(Abs(exp_rounded) - 1), 2), 3)

\* The caller holds a value and an exponent range, min_exp <= max_exp.
InitPow2 ==
    /\ ppc = "start"
    /\ pnumber \in WeightValues
    /\ min_exp \in (-MaxExp)..MaxExp
    /\ max_exp \in min_exp..MaxExp
    /\ pow2 = NoString
    /\ IdleCodec /\ IdleAnalyzer /\ IdleVerify /\ IdleRewriter
    /\ IdleInterpreter

\* float2pow2 returns.
Float2Pow2 ==
    /\ ppc = "start"
    /\ pow2' = float2pow2(pnumber, min_exp, max_exp)
    /\ ppc' = "done"
    /\ UNCHANGED <<pnumber, min_exp, max_exp, notPow2>>

NextPow2 == Float2Pow2

SpecPow2 == InitPow2 /\ [][NextPow2]_vars

----------------------------------------------------------------------------
(* Properties of the codec *)

\* The largest and the smallest value of format (ib, fb), as floats.
MaxRepresentable(ib, fb) == 2 ^ (ib - 1) * One - One \div 2 ^ fb
MinRepresentable(ib, fb) == -(2 ^ (ib - 1)) * One

\* num / den rounded to the nearest integer, a tie to the even neighbour,
\* stated by its defining property.
NearestEven(num, den) ==
    LET lo == num \div den
    IN  CHOOSE r \in {lo, lo + 1} :
            /\ 2 * Abs(den * r - num) <= den
            /\ (2 * Abs(den * r - num) = den => r % 2 = 0)

InRange == /\ number >= MinRepresentable(int_bits, frac_bits)
           /\ number <= MaxRepresentable(int_bits, frac_bits)

\* x rounded to the format's grid and saturated to its range, stated from
\* the format alone.
Saturated(x, ib, fb) ==
    LET r == NearestEven(x * 2 ^ fb, One) * (One \div 2 ^ fb)
    IN  IF r > MaxRepresentable(ib, fb) THEN MaxRepresentable(ib, fb)
        ELSE IF r < MinRepresentable(ib, fb) THEN MinRepresentable(ib, fb)
        ELSE r

\* C1: round trip. Decoding the encoding of a value, through the bit string
\* or through the unsigned integer, gives exactly float2ffloat of the value,
\* inside and outside the representable range.
C1_RoundTrip ==
    cpc = "done" => /\ decoded = ffloat
                    /\ decodedint = ffloat
                    /\ decoded = Saturated(number, int_bits, frac_bits)

\* C1 witness: a negative value off the grid went through the round trip.
C1_Witness ==
    /\ cpc = "done"
    /\ number < 0
    /\ InRange
    /\ ffloat # number
    /\ decoded = ffloat

\* C2: saturation. Above the largest representable value float2fixed is a 0
\* followed by ones, below the smallest a 1 followed by zeros, both of
\* int_bits + frac_bits characters.
C2_Saturation ==
    cpc # "start" =>
        /\ number > MaxRepresentable(int_bits, frac_bits) =>
               fixed = <<"0">> \o [k \in 1..(int_bits + frac_bits - 1) |-> "1"]
        /\ number < MinRepresentable(int_bits, frac_bits) =>
               fixed = <<"1">> \o [k \in 1..(int_bits + frac_bits - 1) |-> "0"]
        /\ ~InRange => Len(fixed) = int_bits + frac_bits

\* C2 witness: a value more than one unit above the range was encoded to the
\* largest positive codeword of a format with several bits.
C2_Witness ==
    /\ cpc = "encoded"
    /\ number > MaxRepresentable(int_bits, frac_bits) + One
    /\ int_bits + frac_bits >= 4
    /\ fixed[1] = "0"
    /\ fixed[int_bits + frac_bits] = "1"

\* C3: inside the range float2fixed is a string of exactly
\* int_bits + frac_bits binary digits whose unsigned value is
\* round_half_to_even(v * 2^frac_bits) modulo 2^(int_bits + frac_bits):
\* 1.5 at 3.5 is 48, -0.125 at 2.6 is 248, and a negative value whose
\* magnitude rounds to zero is the all-zero pattern.
C3_TwosComplement ==
    (cpc # "start" /\ InRange) =>
        LET n == int_bits + frac_bits IN
        /\ Len(fixed) = n
        /\ \A k \in 1..n : fixed[k] \in {"0", "1"}
        /\ fixedint = NearestEven(number * 2 ^ frac_bits, One) % (2 ^ n)
        /\ number >= 0 =>
               fixedint = NearestEven(number * 2 ^ frac_bits, One)
        /\ (number < 0 /\ NearestEven(-number * 2 ^ frac_bits, One) > 0) =>
               fixedint = 2 ^ n - NearestEven(-number * 2 ^ frac_bits, One)
        /\ (number < 0 /\ NearestEven(-number * 2 ^ frac_bits, One) = 0) =>
               fixed = [k \in 1..n |-> "0"]
        /\ (number = One + One \div 2 /\ int_bits = 3 /\ frac_bits = 5) =>
               fixedint = 48
        /\ (number = -(One \div 8) /\ int_bits = 2 /\ frac_bits = 6) =>
               fixedint = 248

\* C3 witness: -0.125 at 2.6 was encoded as 248.
C3_Witness ==
    /\ cpc = "encoded"
    /\ number = -(One \div 8)
    /\ int_bits = 2
    /\ frac_bits = 6
    /\ fixedint = 248

\* C4: idempotence. float2ffloat of an already rounded and saturated value
\* is that value.
C4_Idempotent ==
    cpc = "done" => fffloat = ffloat

\* C4 witness: a value that float2ffloat changed (rounded or saturated) was
\* quantized twice.
C4_Witness ==
    /\ cpc = "done"
    /\ ffloat # number
    /\ ~InRange
    /\ fffloat = ffloat

----------------------------------------------------------------------------
(* Properties of the node builders and of quantize() *)

\* Whether the float v is 2^k for an integer k, of either sign of k.
ExactPowerOfTwo(v) == \E k \in 0..(Scale + TotalBits + MaxWeightExp) : v = 2 ^ k

\* Whether a (scale, zero_point) pair is a valid quantization.
ValidPair(quant) == ExactPowerOfTwo(quant[1]) /\ quant[2] = 0

\* C5: power-of-two invariant. After quantize() has rewritten a graph, every
\* scale initializer it emitted holds an exact power of two and every
\* zero_point initializer holds 0: those of the QuantizeLinear nodes, of the
\* weights, of the convolution outputs and of the DequantizeLinear nodes.
C5_PowerOfTwoInvariant ==
    qpc = "done" =>
        \A k \in 1..Len(new_initializers) :
            /\ new_initializers[k].kind = "scale" =>
                   ExactPowerOfTwo(new_initializers[k].vals[1])
            /\ new_initializers[k].kind = "zero_point" =>
                   new_initializers[k].vals[1] = 0

\* C6: validation is fatal at the point of use. make_quant, make_dequant
\* and make_conv_quant raise for every pair whose scale is not an exact
\* power of two or whose zero point is not 0, and return no node from it.
C6_ValidationFatal ==
    (vpc \in {"returned", "raised"} /\ ~ValidPair(vquant)) =>
        /\ vpc = "raised"
        /\ vresult.raised = "AssertionError"
        /\ "node" \notin DOMAIN vresult

\* The average magnitude <<sum, count>> of the quantized weights of a Conv.
AvgOf(node) ==
    analyze_and_quantize(weights_dict[node.input[2]],
                         weights_dict[node.input[3]]).avg_val

\* The integer e nearest to log2(num / den): (num / den) / 2^e lies between
\* 2^(-1/2) and 2^(1/2).
NearestExponent(num, den) ==
    CHOOSE e \in (1 - TotalBits)..(TotalBits - 1) :
        LET f == Reduced(IF e < 0 THEN num * 2 ^ (-e) ELSE num,
                         IF e > 0 THEN den * 2 ^ e ELSE den)
        IN  /\ f[2] * f[2] < 2 * f[1] * f[1]
            /\ f[1] * f[1] < 2 * f[2] * f[2]

\* 2^(log2(s_in) - round(log2(a))) clamped to [1, 2^TotalBits], for a
\* power of two s_in and a = avg[1] / avg[2].
ExpectedScale(s_in, avg) ==
    LET k == CHOOSE j \in 0..(Scale + TotalBits + MaxWeightExp) : s_in = 2 ^ j
        t == (k - Scale) - NearestExponent(avg[1], avg[2] * One)
    IN  IF t < 0 THEN One
        ELSE IF t > TotalBits THEN 2 ^ TotalBits * One
        ELSE 2 ^ t * One

ConvInputs(nodes) ==
    {nodes[k].input[1] : k \in {j \in 1..Len(nodes) : nodes[j].op_type = "Conv"}}

\* The positions of the QuantizeLinear nodes of a sequence that read t.
QuantizersOf(nodes, t) ==
    {k \in 1..Len(nodes) : /\ nodes[k].op_type = "QuantizeLinear"
                           /\ nodes[k].input[1] = t}

\* C7: dedupe. When the loop of quantize() has gone through a node
\* sequence, the new node list holds exactly one QuantizeLinear node for
\* each distinct tensor that is the data input of a Conv node.
C7_OneQuantizePerInput ==
    (qpc = "loop" /\ idx > Len(graph_node)) =>
        \A t \in ConvInputs(graph_node) :
            Cardinality(QuantizersOf(new_nodes, t)) = 1

\* Whether q, d are a QLinearConv and a DequantizeLinear standing for the
\* Conv c: q writes what d reads, and d writes the output of c.
StandsFor(c, q, d) ==
    /\ q.op_type = "QLinearConv"
    /\ d.op_type = "DequantizeLinear"
    /\ q.output[1] = d.input[1]
    /\ d.output[1] = c.output[1]

RECURSIVE Preserves(_, _)
\* Whether the node list new is the node list orig with every non-Conv node
\* kept as it is and every Conv replaced by QLinearConv, DequantizeLinear,
\* with or without a QuantizeLinear before them that reads the data input
\* of the Conv and writes what the QLinearConv reads.
Preserves(orig, new) ==
    IF orig = <<>> THEN new = <<>>
    ELSE IF Head(orig).op_type # "Conv"
    THEN /\ new # <<>>
         /\ Head(new) = Head(orig)
         /\ Preserves(Tail(orig), Tail(new))
    ELSE \/ /\ Len(new) >= 3
            /\ new[1].op_type = "QuantizeLinear"
            /\ new[1].input[1] = Head(orig).input[1]
            /\ new[1].output[1] = new[2].input[1]
            /\ StandsFor(Head(orig), new[2], new[3])
            /\ Preserves(Tail(orig), SubSeq(new, 4, Len(new)))
         \/ /\ Len(new) >= 2
            /\ StandsFor(Head(orig), new[1], new[2])
            /\ Preserves(Tail(orig), SubSeq(new, 3, Len(new)))

\* C12: topology preservation. After every iteration of the loop of
\* quantize() the new node list is the visited part of the node sequence
\* with each non-Conv node unmodified and in its place and each Conv
\* replaced by [QuantizeLinear], QLinearConv, DequantizeLinear in that
\* order, the QLinearConv output feeding the DequantizeLinear and the
\* DequantizeLinear output carrying the Conv's output name; the list holds
\* no Conv node, and it is the list the returned graph holds.
C12_TopologyPreserved ==
    /\ qpc = "loop" =>
           /\ Preserves(SubSeq(graph_node, 1, idx - 1), new_nodes)
           /\ \A k \in 1..Len(new_nodes) : new_nodes[k].op_type # "Conv"
    /\ qpc = "done" =>
           /\ graph_node = new_nodes
           /\ \A k \in 1..Len(graph_node) : graph_node[k].op_type # "Conv"

\* C12 witness: a graph of two Conv nodes on one input and a Relu was
\* rewritten: six nodes, one QuantizeLinear, two QLinearConv, the Relu.
C12_Witness ==
    /\ qpc = "done"
    /\ Len(graph_node) = 6
    /\ Cardinality({k \in 1..6 : graph_node[k].op_type = "QuantizeLinear"}) = 1
    /\ Cardinality({k \in 1..6 : graph_node[k].op_type = "QLinearConv"}) = 2
    /\ \E k \in 1..6 : graph_node[k].op_type = "Relu"

\* The op_types numpy_inference is said to recognize.
RecognizedOps == {"QLinearConv", "QuantizeLinear", "MaxPool",
                  "GlobalAveragePool", "Relu", "LeakyRelu"}

\* C8: numpy_inference returns only for node sequences whose op_types are
\* all recognized; a float Conv or an op_type outside the recognized set
\* aborts it, and is never skipped with the live tensor passed on.
C8_UnsupportedIsFatal ==
    ipc = "done" =>
        \A k \in 1..Len(inodes) : inodes[k].op_type \in RecognizedOps

----------------------------------------------------------------------------
(* Properties of the analyzer *)

\* highest_val of the drawn tensors
highest_val == HighestVal(original_weights, original_bias)

\* Whether v is at most the largest positive value of the TotalBits-wide
\* format with ib integer bits.
FitsPositive(v, ib) ==
    v <= 2 ^ (ib - 1) * One - One \div 2 ^ (TotalBits - ib)

\* Whether v is at most the magnitude of the format's most negative value.
FitsMagnitude(v, ib) == v <= 2 ^ (ib - 1) * One

C10_ZeroTensorRecovers ==
    (apc \in {"done", "raised"} /\ highest_val = 0) =>
        /\ apc = "done"
        /\ analysis.quant[1] >= 1
        /\ analysis.quant[1] + analysis.quant[2] = TotalBits
        /\ \A k \in 1..Len(analysis.weights) : analysis.weights[k] = 0
        /\ \A k \in 1..Len(analysis.bias) : analysis.bias[k] = 0

----------------------------------------------------------------------------
(* Properties of float2pow2 *)

\* The integer nearest to log2(v) for a float v > 0: v / 2^e lies between
\* 2^(-1/2) and 2^(1/2).
NearestLog2(v) ==
    CHOOSE e \in (-Scale)..(Scale + MaxWeightExp) :
        LET f == Reduced(IF e < 0 THEN v * 2 ^ (-e) ELSE v,
                         IF e > 0 THEN One * 2 ^ e ELSE One)
        IN  /\ f[1] < 2 * f[2]
            /\ f[2] < 2 * f[1]
            /\ f[2] * f[2] < 2 * f[1] * f[1]
            /\ f[1] * f[1] < 2 * f[2] * f[2]

\* The exponent float2pow2 is to encode.
ClampedExponent ==
    IF pnumber = 0 THEN min_exp
    ELSE Max2(Min2(NearestLog2(Abs(pnumber)), max_exp), min_exp)

\* C13: float2pow2 returns one sign character followed by exactly three
\* binary digits whose value is |e| - 1, e being log2(|value|) rounded to
\* the nearest integer and clamped to [min_exp, max_exp], and min_exp for
\* the value 0; also when e is 0.
C13_FixedWidthField ==
    ppc = "done" =>
        /\ Len(pow2) = 4
        /\ pow2[1] = (IF pnumber < 0 THEN "1" ELSE "0")
        /\ \A k \in 2..4 : pow2[k] \in {"0", "1"}
        /\ DigitsValue(SubSeq(pow2, 2, 4)) = Abs(ClampedExponent) - 1

----------------------------------------------------------------------------
(* Properties of the input scale of a rewritten Conv *)

\* The values stored in new_initializers under a name.
StoredUnder(inits, name) ==
    {inits[k].vals : k \in {j \in 1..Len(inits) : inits[j].name = name}}

\* C14: the local quant_in is bound whenever a Conv is rewritten, and after
\* a Conv was rewritten, the scale of the quant_in that make_conv_quant
\* validated and used is the scale stored in an initializer
\* "<input>_quant_scale", the name the emitted QLinearConv refers to, also
\* when the QuantizeLinear was not inserted anew.
C14_InputScaleIsStoredScale ==
    /\ qraised # "UnboundLocalError"
    /\ (qpc = "loop" /\ idx > 1 /\ graph_node[idx - 1].op_type = "Conv") =>
           /\ quant_in # Unbound
           /\ <<quant_in[1]>> \in
                  StoredUnder(new_initializers,
                              Plus(graph_node[idx - 1].input[1],
                                   "_quant_scale"))

====
